---- MODULE Spec2Model ----
(***************************************************************************)
(* Model of the JNI bridge org_apache_sis_storage_gdal_PJ.c: the "ptr"     *)
(* field of the PJ wrappers, the native PJ structures behind it, and the   *)
(* native methods that read, use and release them.                         *)
(***************************************************************************)
EXTENDS Integers, Sequences, FiniteSets, TLC

\* ------------------------------------------------------------------ bounds
MaxDerived  == 1            \* PJ structures allocated after construction
MaxLen      == 5            \* longest coordinate array
MaxCalls    == 2            \* concurrent model: finalize() calls per thread

\* ------------------------------------------------------- program constants
MinDimension == 2
MaxDimension == 100

NULL == 0                   \* a null PJ pointer, a zero "ptr" field
NoID == ""                  \* a null jclass or jfieldID
Wrappers == {1, 2}          \* the PJ wrappers: a source and a target
Handles  == 1 .. (2 + MaxDerived)
Threads  == {"t1", "t2"}

PJ_FIELD_NAME == "ptr"
TypeNames   == {"GEOGRAPHIC", "GEOCENTRIC", "PROJECTED"}
TypeClass   == "org/apache/sis/storage/gdal/PJ$Type"
NPE         == "java/lang/NullPointerException"
IAE         == "java/lang/IllegalArgumentException"
AIOOBE      == "java/lang/ArrayIndexOutOfBoundsException"
TransformException == "org/opengis/referencing/operation/TransformException"
AllClasses  == {TypeClass, NPE, IAE, AIOOBE, TransformException}
AllFields   == TypeNames \cup {PJ_FIELD_NAME}

\* The classes and fields the managed runtime can resolve.  The exception
\* classes are always resolvable; the wrapper's own members may have been
\* renamed (the case the comments of getPJ and getType provide for).
Runtimes == { [classes |-> AllClasses, fields |-> AllFields],
              [classes |-> AllClasses, fields |-> AllFields \ {PJ_FIELD_NAME}],
              [classes |-> AllClasses, fields |-> AllFields \ {"GEOCENTRIC"}],
              [classes |-> AllClasses \ {TypeClass}, fields |-> AllFields] }

Classifications == [latlong : BOOLEAN, geocent : BOOLEAN]
Unused == [state |-> "unused", latlong |-> FALSE, geocent |-> FALSE]
Live(c) == [state |-> "live", latlong |-> c.latlong, geocent |-> c.geocent]

NoArgs == [target |-> NULL, dimension |-> 0, length |-> -1, offset |-> 0, numPts |-> 0]
NoPending == [object |-> NULL, args |-> NoArgs]
NoConv == [pre |-> << >>, post |-> << >>, overrun |-> FALSE, entered |-> FALSE, err |-> 0]

VARIABLES
    ptr,          \* the "ptr" field of every wrapper (0 = null)
    pjs,          \* the native PJ structures: allocation state and classification
    freeCount,    \* number of pj_free calls received by every PJ structure
    runtime,      \* classes and fields the managed runtime resolves
    danglingUse,  \* a native call or field read received a PJ that was not live
    op,           \* the last operation: name, receiver, arguments
    ret,          \* its return value
    exc,          \* the exception it left pending ("none" if none)
    trace,        \* the JNI and library calls it made, in order
    coordinates,  \* the coordinate array after the last transform
    conv,         \* what the last transform did inside the critical section
    fault,        \* the process accessed memory outside the coordinate array
    pending,      \* transform model: the call about to be made
    tpc, tobj, tpj, tcalls,  \* concurrent model: position, receiver, local pj, calls made
    raced         \* concurrent model: wrappers whose field was read by two finalize() before either zeroed it

vars == << ptr, pjs, freeCount, runtime, danglingUse, op, ret, exc, trace,
           coordinates, conv, fault, pending, tpc, tobj, tpj, tcalls, raced >>

lifeVars == << ptr, pjs, freeCount >>
concVars == << tpc, tobj, tpj, tcalls, raced >>

\* ---------------------------------------------------------- JNI primitives
FindClass(name) == IF name \in runtime.classes THEN name ELSE NoID
GetFieldID(name) == IF name \in runtime.fields THEN name ELSE NoID
GetStaticFieldID(c, name) == IF name \in runtime.fields THEN name ELSE NoID

\* Return values: a null reference, NaN, a jlong, or a value built from a PJ.
RetNull == [kind |-> "null", str |-> "", num |-> 0]
RetNaN == [kind |-> "NaN", str |-> "", num |-> 0]
RetVoid == [kind |-> "void", str |-> "", num |-> 0]
RetLong(h) == [kind |-> "long", str |-> "", num |-> h]
RetOf(what, pj) == [kind |-> "value", str |-> what, num |-> pj]

\* getPJ: the value of the "ptr" field, or NULL if the field is not found.
getPJ(object) == IF GetFieldID(PJ_FIELD_NAME) # NoID THEN ptr[object] ELSE NULL

getPJ_trace == IF GetFieldID(PJ_FIELD_NAME) # NoID
               THEN << "GetObjectClass", "GetFieldID", "GetLongField" >>
               ELSE << "GetObjectClass", "GetFieldID" >>

\* A PJ handed to the library or dereferenced must be a live structure.
IsDangling(pj) == pj # NULL /\ pjs[pj].state # "live"

pj_is_latlong(pj) == pjs[pj].latlong
pj_is_geocent(pj) == pjs[pj].geocent

\* An operation other than transform is passed no coordinate array.
NoArray ==
    /\ coordinates' = << >>
    /\ conv' = NoConv
    /\ UNCHANGED fault

\* ---------------------------------------------------------------- finalize
\* Value written to the field before the structure is freed.
finalize_noZero(pj) == pj
finalize_store(pj) == NULL

Java_org_apache_sis_storage_gdal_PJ_finalize(object) ==
    /\ ~fault
    /\ LET id == GetFieldID(PJ_FIELD_NAME)
           pj == IF id # NoID THEN ptr[object] ELSE NULL
       IN  /\ IF pj # NULL
              THEN /\ ptr' = [ptr EXCEPT ![object] = finalize_store(pj)]
                   /\ pjs' = [pjs EXCEPT ![pj].state = "freed"]
                   /\ freeCount' = [freeCount EXCEPT ![pj] = @ + 1]
                   /\ danglingUse' = (danglingUse \/ IsDangling(pj))
                   /\ trace' = << "GetObjectClass", "GetFieldID", "GetLongField",
                                  "SetLongField", "pj_free" >>
              ELSE /\ UNCHANGED << ptr, pjs, freeCount, danglingUse >>
                   /\ trace' = getPJ_trace
    /\ op' = [name |-> "finalize", self |-> object, args |-> NoArgs]
    /\ ret' = RetVoid
    /\ exc' = "none"
    /\ UNCHANGED runtime
    /\ NoArray
    /\ UNCHANGED concVars

\* ----------------------------------------------------------------- queries
\* A query reads the field with getPJ and, if it is not null, hands the PJ to
\* the library or reads its members; `outcomes` are the values it can then
\* return, `sentinel` is what it returns for a null PJ.
Query(name, object, outcomes, sentinel, calls) ==
    /\ ~fault
    /\ LET pj == getPJ(object)
       IN  /\ IF pj # NULL
              THEN /\ ret' \in outcomes
                   /\ trace' = getPJ_trace \o calls
                   /\ danglingUse' = (danglingUse \/ IsDangling(pj))
              ELSE /\ ret' = sentinel
                   /\ trace' = getPJ_trace
                   /\ UNCHANGED danglingUse
    /\ op' = [name |-> name, self |-> object, args |-> NoArgs]
    /\ exc' = "none"
    /\ UNCHANGED runtime
    /\ UNCHANGED lifeVars
    /\ NoArray
    /\ UNCHANGED concVars

\* pj_get_def may return NULL.
Java_org_apache_sis_storage_gdal_PJ_getCode(object) ==
    Query("getCode", object, {RetOf("def", getPJ(object)), RetNull}, RetNull,
          << "pj_get_def" >>)

\* pj->descr may be NULL.
Java_org_apache_sis_storage_gdal_PJ_getName(object) ==
    Query("getName", object, {RetOf("descr", getPJ(object)), RetNull}, RetNull,
          << "pj->descr" >>)

Java_org_apache_sis_storage_gdal_PJ_getSemiMajorAxis(object) ==
    Query("getSemiMajorAxis", object, {RetOf("a_orig", getPJ(object))}, RetNaN,
          << "pj->a_orig" >>)

Java_org_apache_sis_storage_gdal_PJ_getSemiMinorAxis(object) ==
    Query("getSemiMinorAxis", object, {RetOf("sqrt(a*a*(1-es))", getPJ(object))}, RetNaN,
          << "pj->a_orig", "pj->es_orig" >>)

Java_org_apache_sis_storage_gdal_PJ_getEccentricitySquared(object) ==
    Query("getEccentricitySquared", object, {RetOf("es_orig", getPJ(object))}, RetNaN,
          << "pj->es_orig" >>)

\* NewCharArray may return NULL.
Java_org_apache_sis_storage_gdal_PJ_getAxisDirections(object) ==
    Query("getAxisDirections", object, {RetOf("axis", getPJ(object)), RetNull}, RetNull,
          << "pj->axis" >>)

Java_org_apache_sis_storage_gdal_PJ_getGreenwichLongitude(object) ==
    Query("getGreenwichLongitude", object,
          {RetOf("from_greenwich*(180/pi)", getPJ(object))}, RetNaN,
          << "pj->from_greenwich" >>)

Java_org_apache_sis_storage_gdal_PJ_getLinearUnitToMetre(object, vertical) ==
    Query("getLinearUnitToMetre", object,
          {RetOf(IF vertical THEN "vto_meter" ELSE "to_meter", getPJ(object))}, RetNaN,
          << IF vertical THEN "pj->vto_meter" ELSE "pj->to_meter" >>)

\* pj_ctx_get_errno returns 0 when no error is pending.
Java_org_apache_sis_storage_gdal_PJ_getLastError(object) ==
    Query("getLastError", object, {RetOf("strerrno", getPJ(object)), RetNull}, RetNull,
          << "pj->ctx", "pj_ctx_get_errno" >>)

\* pj_latlong_from_proj allocates a geographic PJ, or returns NULL.
Java_org_apache_sis_storage_gdal_PJ_allocateGeoPJ(projected) ==
    /\ ~fault
    /\ LET pj == getPJ(projected)
       IN  IF pj # NULL
           THEN /\ trace' = getPJ_trace \o << "pj_latlong_from_proj" >>
                /\ danglingUse' = (danglingUse \/ IsDangling(pj))
                /\ \/ /\ ret' = RetLong(NULL)
                      /\ UNCHANGED pjs
                   \/ \E h \in Handles \ Wrappers :
                        /\ pjs[h].state = "unused"
                        /\ \A g \in Handles \ Wrappers : g < h => pjs[g].state # "unused"
                        /\ pjs' = [pjs EXCEPT ![h] = Live([latlong |-> TRUE, geocent |-> FALSE])]
                        /\ ret' = RetLong(h)
           ELSE /\ trace' = getPJ_trace
                /\ ret' = RetLong(NULL)
                /\ UNCHANGED << pjs, danglingUse >>
    /\ op' = [name |-> "allocateGeoPJ", self |-> projected, args |-> NoArgs]
    /\ exc' = "none"
    /\ UNCHANGED << ptr, freeCount, runtime >>
    /\ NoArray
    /\ UNCHANGED concVars

\* ----------------------------------------------------------------- getType
\* The name of the enum member, from the two predicates in priority order.
getType_geocentFirst(pj) ==
    IF pj_is_geocent(pj) THEN "GEOCENTRIC"
    ELSE IF pj_is_latlong(pj) THEN "GEOGRAPHIC"
    ELSE "PROJECTED"

getType_type(pj) ==
    IF pj_is_latlong(pj) THEN "GEOGRAPHIC"
    ELSE IF pj_is_geocent(pj) THEN "GEOCENTRIC"
    ELSE "PROJECTED"

Java_org_apache_sis_storage_gdal_PJ_getType(object) ==
    /\ ~fault
    /\ LET pj == getPJ(object)
       IN  IF pj # NULL
           THEN LET type == getType_type(pj)
                    c == FindClass(TypeClass)
                    id == IF c # NoID THEN GetStaticFieldID(c, type) ELSE NoID
                IN  /\ danglingUse' = (danglingUse \/ IsDangling(pj))
                    /\ ret' = IF id # NoID THEN RetOf(id, NULL) ELSE RetNull
                    /\ trace' = getPJ_trace
                                \o (IF pj_is_latlong(pj) THEN << "pj_is_latlong" >>
                                    ELSE << "pj_is_latlong", "pj_is_geocent" >>)
                                \o << "FindClass" >>
                                \o (IF c # NoID THEN << "GetStaticFieldID" >> ELSE << >>)
                                \o (IF id # NoID THEN << "GetStaticObjectField" >> ELSE << >>)
           ELSE /\ ret' = RetNull
                /\ trace' = getPJ_trace
                /\ UNCHANGED danglingUse
    /\ op' = [name |-> "getType", self |-> object, args |-> NoArgs]
    /\ exc' = "none"
    /\ UNCHANGED runtime
    /\ UNCHANGED lifeVars
    /\ NoArray
    /\ UNCHANGED concVars

\* ------------------------------------------------------- 32-bit arithmetic
\* jint arithmetic, computed on 16-bit halves so that no intermediate value
\* leaves the range of the integers the checker computes with.
Half == 2^16
Int32Max == (Half \div 2 - 1) * Half + (Half - 1)

\* The signed 32-bit value of the unsigned halves (hi, lo).
FromHalves(hi, lo) == IF hi >= Half \div 2 THEN (hi - Half) * Half + lo ELSE hi * Half + lo
HiHalf(x) == (x \div Half) % Half
LoHalf(x) == x % Half

\* d * n modulo 2^32, for 0 <= d <= MaxDimension and a jint n.
Mul32(d, n) ==
    LET plo == d * LoHalf(n)
        phi == d * HiHalf(n) + plo \div Half
    IN  FromHalves(phi % Half, plo % Half)

\* a + b modulo 2^32.
Add32(a, b) ==
    LET lo == LoHalf(a) + LoHalf(b)
        hi == HiHalf(a) + HiHalf(b) + lo \div Half
    IN  FromHalves(hi % Half, lo % Half)

\* offset + dimension*numPts leaves the range of jint (offset, numPts >= 0).
Overflows(offset, dimension, numPts) ==
    \/ numPts > Int32Max \div dimension
    \/ dimension * numPts > Int32Max - offset

\* The mathematical offset + dimension*numPts exceeds length (offset, numPts >= 0).
Exceeds(offset, dimension, numPts, length) ==
    \/ offset > length
    \/ numPts > (length - offset) \div dimension

\* ---------------------------------------------------------------- transform
\* A coordinate array is a sequence of ordinates; position i of the C array is
\* element i+1.  An ordinate is the sequence of the operations applied to the
\* caller's value: "rad" (multiplied by M_PI/180), "T" (written by
\* pj_transform), "deg" (multiplied by 180/M_PI).
Fresh(length) == [i \in 1 .. length |-> << >>]
Apply(buf, i, tag) == [buf EXCEPT ![i + 1] = Append(@, tag)]

\* while (data != stop) { (*data++) *= factor; (*data++) *= factor; data += dimToSkip; }
RECURSIVE LoopPairs(_, _, _, _, _, _, _)
LoopPairs(buf, data, stop, dimToSkip, factor, mult, overrun) ==
    IF data = stop
    THEN [buf |-> buf, mult |-> mult, overrun |-> overrun, fault |-> FALSE]
    ELSE IF data >= Len(buf)
    THEN [buf |-> buf, mult |-> mult, overrun |-> TRUE, fault |-> TRUE]
    ELSE IF data + 1 >= Len(buf)
    THEN [buf |-> Apply(buf, data, factor), mult |-> Append(mult, data),
          overrun |-> TRUE, fault |-> TRUE]
    ELSE LoopPairs(Apply(Apply(buf, data, factor), data + 1, factor),
                   data + 2 + dimToSkip, stop, dimToSkip, factor,
                   mult \o << data, data + 1 >>,
                   overrun \/ data > stop \/ data + 1 >= stop)

\* while (data != stop) { (*data++) *= factor; }
RECURSIVE LoopAll(_, _, _, _, _, _)
LoopAll(buf, data, stop, factor, mult, overrun) ==
    IF data = stop
    THEN [buf |-> buf, mult |-> mult, overrun |-> overrun, fault |-> FALSE]
    ELSE IF data >= Len(buf)
    THEN [buf |-> buf, mult |-> mult, overrun |-> TRUE, fault |-> TRUE]
    ELSE LoopAll(Apply(buf, data, factor), data + 1, stop, factor,
                 Append(mult, data), overrun \/ data > stop)

\* convertAngularOrdinates: the array after the conversion, the positions
\* multiplied (in order), whether the cursor stepped past `stop`, and whether
\* an ordinate outside the array was accessed.
convertAngularOrdinates(pj, buf, data, numPts, dimension, factor) ==
    IF ~pj_is_latlong(pj) /\ ~pj_is_geocent(pj)
    THEN [buf |-> buf, mult |-> << >>, overrun |-> FALSE, fault |-> FALSE]
    ELSE LET dimToSkip == IF pj_is_latlong(pj) THEN dimension - 2
                          ELSE dimension - 3
             stop == data + dimension * numPts
         IN  IF dimToSkip > 0
             THEN LoopPairs(buf, data, stop, dimToSkip, factor, << >>, FALSE)
             ELSE LoopAll(buf, data, stop, factor, << >>, FALSE)

convert_trace(pj) == IF pj_is_latlong(pj) THEN << "pj_is_latlong" >>
                     ELSE << "pj_is_latlong", "pj_is_geocent" >>

\* pj_transform writes the x, y and (dimension >= 3) z of the first `done`
\* points; the library may stop early when it reports an error.
RECURSIVE pj_transform(_, _, _, _)
pj_transform(buf, x, dimension, done) ==
    IF done = 0 THEN buf
    ELSE LET p == x + (done - 1) * dimension
             xy == Apply(Apply(pj_transform(buf, x, dimension, done - 1), p, "T"), p + 1, "T")
         IN  IF dimension >= 3 THEN Apply(xy, p + 2, "T") ELSE xy

ErrCodes == {0, -14}

\* The outcomes of the check of line 347, TRUE when the exception is thrown.
\* When offset + dimension*numPts overflows (undefined for jint) the sum is
\* either the wrapped value or the value of a wider register.
boundsCheck(offset, dimension, numPts, length) ==
    IF offset < 0 \/ numPts < 0 THEN {TRUE}
    ELSE IF Overflows(offset, dimension, numPts)
    THEN {Add32(offset, Mul32(dimension, numPts)) > length, TRUE}
    ELSE {offset + dimension * numPts > length}

dimensionCheck_lowerOne(dimension) == dimension < 1 \/ dimension > MaxDimension
dimensionCheck(dimension) == dimension < MinDimension \/ dimension > MaxDimension

\* What transform does when a handle is null: nothing, and no exception.
invalidHandle_throws == NPE
invalidHandle == "none"

Throw(class) == IF FindClass(class) # NoID THEN << "FindClass", "ThrowNew" >>
                ELSE << "FindClass" >>
Thrown(class) == IF FindClass(class) # NoID THEN class ELSE "java/lang/NoClassDefFoundError"

\* The call leaves the array as the caller passed it.
Untouched(a) ==
    /\ coordinates' = (IF a.length >= 0 THEN Fresh(a.length) ELSE << >>)
    /\ conv' = NoConv
    /\ fault' = FALSE

\* a.length = -1 stands for a null `coordinates` reference.
Java_org_apache_sis_storage_gdal_PJ_transform(object, a) ==
    /\ ~fault
    /\ op' = [name |-> "transform", self |-> object, args |-> a]
    /\ ret' = RetVoid
    /\ UNCHANGED runtime
    /\ UNCHANGED lifeVars
    /\ UNCHANGED concVars
    /\ IF a.target = NULL \/ a.length = -1
       THEN /\ exc' = Thrown(NPE)
            /\ trace' = Throw(NPE)
            /\ Untouched(a)
            /\ UNCHANGED danglingUse
       ELSE IF dimensionCheck(a.dimension)
       THEN /\ exc' = Thrown(IAE)
            /\ trace' = Throw(IAE)
            /\ Untouched(a)
            /\ UNCHANGED danglingUse
       ELSE \E outOfBounds \in boundsCheck(a.offset, a.dimension, a.numPts, a.length) :
            LET checked == IF a.offset < 0 \/ a.numPts < 0 THEN << >>
                           ELSE << "GetArrayLength" >>
                src_pj == getPJ(object)
                dst_pj == getPJ(a.target)
                lookups == checked \o getPJ_trace \o getPJ_trace
            IN  IF outOfBounds
                THEN /\ exc' = Thrown(AIOOBE)
                     /\ trace' = checked \o Throw(AIOOBE)
                     /\ Untouched(a)
                     /\ UNCHANGED danglingUse
                ELSE IF ~(src_pj # NULL /\ dst_pj # NULL)
                THEN /\ exc' = invalidHandle
                     /\ trace' = lookups
                     /\ Untouched(a)
                     /\ UNCHANGED danglingUse
                ELSE \/ \* GetPrimitiveArrayCritical returned NULL
                        /\ exc' = "none"
                        /\ trace' = lookups \o << "GetPrimitiveArrayCritical" >>
                        /\ Untouched(a)
                        /\ UNCHANGED danglingUse
                     \/ /\ danglingUse' = (danglingUse \/ IsDangling(src_pj) \/ IsDangling(dst_pj))
                        /\ IF Exceeds(a.offset, a.dimension, a.numPts, a.length)
                           THEN \* the check passed on a wrapped sum: pj_transform, given
                                \* numPts points, accesses ordinates outside the array
                                /\ fault' = TRUE
                                /\ exc' = "none"
                                /\ coordinates' = Fresh(a.length)
                                /\ conv' = [pre |-> << >>, post |-> << >>, overrun |-> TRUE,
                                            entered |-> TRUE, err |-> 0]
                                /\ trace' = lookups \o << "GetPrimitiveArrayCritical" >>
                                            \o convert_trace(src_pj) \o << "pj_transform" >>
                           ELSE \E err \in ErrCodes, done \in {0, a.numPts} :
                                /\ err = 0 => done = a.numPts
                                /\ LET pre == convertAngularOrdinates(src_pj, Fresh(a.length),
                                                  a.offset, a.numPts, a.dimension, "rad")
                                       mid == pj_transform(pre.buf, a.offset, a.dimension, done)
                                       post == convertAngularOrdinates(dst_pj, mid,
                                                  a.offset, a.numPts, a.dimension, "deg")
                                       enter == lookups \o << "GetPrimitiveArrayCritical" >>
                                                \o convert_trace(src_pj)
                                   IN  IF pre.fault
                                       THEN /\ fault' = TRUE
                                            /\ exc' = "none"
                                            /\ coordinates' = pre.buf
                                            /\ conv' = [pre |-> pre.mult, post |-> << >>,
                                                        overrun |-> TRUE, entered |-> TRUE,
                                                        err |-> 0]
                                            /\ trace' = enter
                                       ELSE IF post.fault
                                       THEN /\ fault' = TRUE
                                            /\ exc' = "none"
                                            /\ coordinates' = post.buf
                                            /\ conv' = [pre |-> pre.mult, post |-> post.mult,
                                                        overrun |-> TRUE, entered |-> TRUE,
                                                        err |-> err]
                                            /\ trace' = enter \o << "pj_transform" >>
                                                        \o convert_trace(dst_pj)
                                       ELSE /\ fault' = FALSE
                                            /\ exc' = (IF err # 0 THEN Thrown(TransformException)
                                                       ELSE "none")
                                            /\ coordinates' = post.buf
                                            /\ conv' = [pre |-> pre.mult, post |-> post.mult,
                                                        overrun |-> pre.overrun \/ post.overrun,
                                                        entered |-> TRUE, err |-> err]
                                            /\ trace' = enter \o << "pj_transform" >>
                                                        \o convert_trace(dst_pj)
                                                        \o << "ReleasePrimitiveArrayCritical" >>
                                                        \o (IF err = 0 THEN << >>
                                                            ELSE IF FindClass(TransformException) # NoID
                                                            THEN << "FindClass", "pj_strerrno", "ThrowNew" >>
                                                            ELSE << "FindClass" >>)

\* -------------------------------------------------------------------- Init
\* After construction every wrapper holds the PJ allocated for it, or 0 when
\* the allocation failed; without a "ptr" field nothing can be held.
InitLife(runtimes, classifications) ==
    /\ runtime \in runtimes
    /\ \E ok \in [Wrappers -> BOOLEAN], cls \in [Wrappers -> classifications] :
          /\ ptr = [w \in Wrappers |->
                      IF ok[w] /\ PJ_FIELD_NAME \in runtime.fields THEN w ELSE NULL]
          /\ pjs = [h \in Handles |->
                      IF h \in Wrappers /\ ok[h] /\ PJ_FIELD_NAME \in runtime.fields
                      THEN Live(cls[h]) ELSE Unused]
    /\ freeCount = [h \in Handles |-> 0]
    /\ danglingUse = FALSE
    /\ op = [name |-> "none", self |-> NULL, args |-> NoArgs]
    /\ ret = RetVoid
    /\ exc = "none"
    /\ trace = << >>
    /\ coordinates = << >>
    /\ conv = NoConv
    /\ fault = FALSE

InitConcIdle ==
    /\ tpc = [t \in Threads |-> "idle"]
    /\ tobj = [t \in Threads |-> NULL]
    /\ tpj = [t \in Threads |-> NULL]
    /\ tcalls = [t \in Threads |-> 0]
    /\ raced = {}

\* ------------------------------------------------- the wrappers' life cycle
\* The calls of transform made in the life-cycle model.
SmallCalls == [target : Wrappers, dimension : {2}, length : {3},
               offset : {0}, numPts : {1}]

Init ==
    /\ InitLife(Runtimes, Classifications)
    /\ InitConcIdle
    /\ pending = NoPending

Next ==
    /\ UNCHANGED pending
    /\ \E w \in Wrappers :
        \/ Java_org_apache_sis_storage_gdal_PJ_finalize(w)
        \/ Java_org_apache_sis_storage_gdal_PJ_allocateGeoPJ(w)
        \/ Java_org_apache_sis_storage_gdal_PJ_getCode(w)
        \/ Java_org_apache_sis_storage_gdal_PJ_getName(w)
        \/ Java_org_apache_sis_storage_gdal_PJ_getType(w)
        \/ Java_org_apache_sis_storage_gdal_PJ_getSemiMajorAxis(w)
        \/ Java_org_apache_sis_storage_gdal_PJ_getSemiMinorAxis(w)
        \/ Java_org_apache_sis_storage_gdal_PJ_getEccentricitySquared(w)
        \/ Java_org_apache_sis_storage_gdal_PJ_getAxisDirections(w)
        \/ Java_org_apache_sis_storage_gdal_PJ_getGreenwichLongitude(w)
        \/ \E vertical \in BOOLEAN :
              Java_org_apache_sis_storage_gdal_PJ_getLinearUnitToMetre(w, vertical)
        \/ Java_org_apache_sis_storage_gdal_PJ_getLastError(w)
        \/ \E a \in SmallCalls : Java_org_apache_sis_storage_gdal_PJ_transform(w, a)

Spec == Init /\ [][Next]_vars

\* ------------------------------------------------------ one call of transform
\* The arguments a caller can pass: jint values around every threshold of the
\* validation, and two numPts whose product with dimension leaves 32 bits.
Dimensions == {MinDimension - 1, 2, 3, 4, MaxDimension, MaxDimension + 1}
Offsets == {-1, 0, 1}
NumPtsValues == {-1, 0, 1, 2, 1073741824, 1431655767}
Calls == [target : {NULL} \cup Wrappers, dimension : Dimensions,
          length : -1 .. MaxLen, offset : Offsets, numPts : NumPtsValues]
FullRuntime == [classes |-> AllClasses, fields |-> AllFields]

InitT ==
    /\ InitLife({FullRuntime}, Classifications)
    /\ InitConcIdle
    /\ pending \in [object : Wrappers, args : Calls]

TransformPending ==
    /\ pending # NoPending
    /\ Java_org_apache_sis_storage_gdal_PJ_transform(pending.object, pending.args)
    /\ pending' = NoPending

NextT == TransformPending

SpecT == InitT /\ [][NextT]_vars

\* ------------------------------------------- finalize on concurrent threads
\* The steps of Java_org_apache_sis_storage_gdal_PJ_finalize, one JNI or
\* library call at a time, run by threads that interleave freely.
FinalizeCall(t, object) ==
    /\ tpc[t] = "idle"
    /\ tcalls[t] < MaxCalls
    /\ tpc' = [tpc EXCEPT ![t] = "GetFieldID"]
    /\ tobj' = [tobj EXCEPT ![t] = object]
    /\ tpj' = [tpj EXCEPT ![t] = NULL]
    /\ tcalls' = [tcalls EXCEPT ![t] = @ + 1]
    /\ UNCHANGED << ptr, pjs, freeCount, danglingUse, raced >>

FinalizeGetFieldID(t) ==
    /\ tpc[t] = "GetFieldID"
    /\ tpc' = [tpc EXCEPT ![t] = IF GetFieldID(PJ_FIELD_NAME) # NoID
                                 THEN "GetLongField" ELSE "idle"]
    /\ UNCHANGED << ptr, pjs, freeCount, danglingUse, tobj, tpj, tcalls, raced >>

\* Another thread has read this wrapper's field and not yet zeroed it.
ReadPending(t, object) ==
    \E u \in Threads \ {t} : tobj[u] = object /\ tpc[u] = "SetLongField"

FinalizeGetLongField(t) ==
    /\ tpc[t] = "GetLongField"
    /\ LET pj == ptr[tobj[t]]
       IN  /\ tpj' = [tpj EXCEPT ![t] = pj]
           /\ tpc' = [tpc EXCEPT ![t] = IF pj # NULL THEN "SetLongField" ELSE "idle"]
           /\ raced' = IF pj # NULL /\ ReadPending(t, tobj[t])
                       THEN raced \cup {tobj[t]} ELSE raced
    /\ UNCHANGED << ptr, pjs, freeCount, danglingUse, tobj, tcalls >>

FinalizeSetLongField(t) ==
    /\ tpc[t] = "SetLongField"
    /\ ptr' = [ptr EXCEPT ![tobj[t]] = finalize_store(tpj[t])]
    /\ tpc' = [tpc EXCEPT ![t] = "pj_free"]
    /\ UNCHANGED << pjs, freeCount, danglingUse, tobj, tpj, tcalls, raced >>

FinalizeFree(t) ==
    /\ tpc[t] = "pj_free"
    /\ pjs' = [pjs EXCEPT ![tpj[t]].state = "freed"]
    /\ freeCount' = [freeCount EXCEPT ![tpj[t]] = @ + 1]
    /\ danglingUse' = (danglingUse \/ IsDangling(tpj[t]))
    /\ tpc' = [tpc EXCEPT ![t] = "idle"]
    /\ UNCHANGED << ptr, tobj, tpj, tcalls, raced >>

InitConc ==
    /\ InitLife({FullRuntime, [classes |-> AllClasses, fields |-> AllFields \ {PJ_FIELD_NAME}]},
                {[latlong |-> TRUE, geocent |-> FALSE]})
    /\ InitConcIdle
    /\ pending = NoPending

NextConc ==
    /\ UNCHANGED << runtime, op, ret, exc, trace, coordinates, conv, fault, pending >>
    /\ \E t \in Threads :
        \/ \E w \in Wrappers : FinalizeCall(t, w)
        \/ FinalizeGetFieldID(t)
        \/ FinalizeGetLongField(t)
        \/ FinalizeSetLongField(t)
        \/ FinalizeFree(t)

SpecConc == InitConc /\ [][NextConc]_vars

\* ------------------------------------------------------------------ claims
Range(seq) == {seq[i] : i \in 1 .. Len(seq)}
Count(seq, e) == Cardinality({i \in 1 .. Len(seq) : seq[i] = e})
First(seq, e) == CHOOSE i \in 1 .. Len(seq) : seq[i] = e /\ \A j \in 1 .. i - 1 : seq[j] # e

\* The calls of a trace that go to the managed runtime (JNI).
JNICalls == {"FindClass", "ThrowNew", "GetArrayLength", "GetObjectClass", "GetFieldID",
             "GetLongField", "SetLongField", "GetStaticFieldID", "GetStaticObjectField",
             "GetPrimitiveArrayCritical", "ReleasePrimitiveArrayCritical"}
\* The calls of a trace that hand a PJ to the library or read its members.
UsesPJ(tr) == Range(tr) \ JNICalls # {}

IsTransform == op.name = "transform"
InRange(dimension) == dimension >= MinDimension /\ dimension <= MaxDimension
\* The arguments satisfy every precondition of transform, mathematically.
ValidArgs(a) ==
    /\ a.target # NULL /\ a.length >= 0
    /\ InRange(a.dimension)
    /\ a.offset >= 0 /\ a.numPts >= 0
    /\ ~Exceeds(a.offset, a.dimension, a.numPts, a.length)
ArrayUntouched == conv = NoConv /\ ~fault
                  /\ (op.args.length >= 0 => coordinates = Fresh(op.args.length))
Released(w) == pjs[w].state = "freed"

\* C1: a wrapper that held a handle and was released any number of times has
\* had its handle freed exactly once: the field is either still the live
\* handle (never released, never freed) or zero with the handle freed once.
C1_FreedExactlyOnce ==
    /\ \A h \in Handles : freeCount[h] <= 1
    /\ \A w \in Wrappers :
          pjs[w].state # "unused" =>
              IF ptr[w] # NULL
              THEN ptr[w] = w /\ pjs[w].state = "live" /\ freeCount[w] = 0
              ELSE pjs[w].state = "freed" /\ freeCount[w] = 1
    /\ (op.name = "finalize" => ptr[op.self] = NULL)

\* A release that found the field zeroed by an earlier one and freed nothing.
C1_Witness ==
    /\ op.name = "finalize"
    /\ freeCount[op.self] = 1
    /\ "pj_free" \notin Range(trace)
    /\ "GetLongField" \in Range(trace)

C6_TypePriority ==
    op.name = "getType" =>
        LET pj == getPJ(op.self)
            expected == IF pj = NULL THEN ""
                        ELSE IF pjs[pj].latlong THEN "GEOGRAPHIC"
                        ELSE IF pjs[pj].geocent THEN "GEOCENTRIC"
                        ELSE "PROJECTED"
            found == pj # NULL /\ TypeClass \in runtime.classes /\ expected \in runtime.fields
        IN  /\ found => ret = RetOf(expected, NULL)
            /\ ~found => ret = RetNull

\* getType on a handle for which both predicates hold returned GEOGRAPHIC.
C6_Witness ==
    /\ op.name = "getType"
    /\ getPJ(op.self) # NULL
    /\ pjs[getPJ(op.self)].latlong /\ pjs[getPJ(op.self)].geocent
    /\ ret = RetOf("GEOGRAPHIC", NULL)

\* A call of transform on wrappers of which one holds a zero handle.
ZeroHandleCall ==
    /\ IsTransform
    /\ op.args.target # NULL /\ op.args.length >= 0
    /\ (getPJ(op.self) = NULL \/ getPJ(op.args.target) = NULL)

C3_Original ==
    (IsTransform /\ ~InRange(op.args.dimension)) => (exc = IAE /\ ArrayUntouched)

\* C3 as amended: a dimension outside [2, 100] leaves the buffer untouched and
\* raises illegal-argument when the target and the buffer are non-null, and
\* the missing-argument error when one of them is null; illegal-argument is
\* raised for no dimension inside the range.
C3_IllegalDimension ==
    IsTransform =>
        /\ ~InRange(op.args.dimension) =>
              /\ ArrayUntouched
              /\ exc = (IF op.args.target = NULL \/ op.args.length = -1 THEN NPE ELSE IAE)
        /\ InRange(op.args.dimension) => exc # IAE

\* Dimension 101 with a target and a buffer raised illegal-argument.
C3_Witness ==
    /\ IsTransform
    /\ op.args.dimension = MaxDimension + 1
    /\ op.args.target # NULL /\ op.args.length >= 0
    /\ exc = IAE /\ ArrayUntouched

\* C4: with a target, a buffer and a dimension in [2, 100], a negative offset
\* or numPts, or an offset + dimension*numPts that mathematically exceeds the
\* length, raises out-of-bounds and the buffer is not accessed.
C4_OutOfBounds ==
    (/\ IsTransform
     /\ op.args.target # NULL /\ op.args.length >= 0
     /\ InRange(op.args.dimension)
     /\ \/ op.args.offset < 0
        \/ op.args.numPts < 0
        \/ Exceeds(op.args.offset, op.args.dimension, op.args.numPts, op.args.length))
    => (exc = AIOOBE /\ ArrayUntouched)

\* The ordinates the conversion step is to multiply for a system: the first 2
\* of every tuple if geographic, the first min(3, dimension) if geocentric.
Ordinates(pj, a) ==
    LET k == IF pjs[pj].latlong THEN 2
             ELSE IF pjs[pj].geocent THEN (IF a.dimension < 3 THEN a.dimension ELSE 3)
             ELSE 0
    IN  {a.offset + t * a.dimension + i : t \in 0 .. a.numPts - 1, i \in 0 .. k - 1}
ExactlyOnce(mult, S) == Range(mult) = S /\ Len(mult) = Cardinality(S)

\* C7: in a valid call that entered the critical section the step before the
\* library call multiplies exactly the ordinates selected by the source
\* system, the step after it exactly those selected by the target system.
C7_ConvertedOrdinates ==
    (IsTransform /\ conv.entered /\ ValidArgs(op.args)) =>
        /\ ExactlyOnce(conv.pre, Ordinates(getPJ(op.self), op.args))
        /\ ExactlyOnce(conv.post, Ordinates(getPJ(op.args.target), op.args))

\* C8: validation and handle lookups precede the acquire; no JNI call lies
\* between the acquire and the release; a successful acquire is followed by
\* exactly one release; the transform failure is raised iff the library
\* returned a nonzero code, and after the release.
AcquireIdx == First(trace, "GetPrimitiveArrayCritical")
ReleaseIdx == First(trace, "ReleasePrimitiveArrayCritical")
TraceOrdered ==
    /\ Count(trace, "GetPrimitiveArrayCritical") <= 1
    /\ "GetPrimitiveArrayCritical" \in Range(trace) =>
          /\ \A i \in AcquireIdx + 1 .. Len(trace) :
                trace[i] \notin {"GetArrayLength", "GetObjectClass", "GetFieldID", "GetLongField"}
          /\ Count(trace, "GetFieldID") = 2
    /\ "ReleasePrimitiveArrayCritical" \in Range(trace) => conv.entered
    /\ conv.entered =>
          /\ Count(trace, "ReleasePrimitiveArrayCritical") = 1
          /\ AcquireIdx < ReleaseIdx
          /\ \A i \in AcquireIdx + 1 .. ReleaseIdx - 1 : trace[i] \notin JNICalls
          /\ (exc = TransformException) <=> (conv.err # 0)
          /\ \A i \in 1 .. ReleaseIdx : trace[i] # "ThrowNew"
    /\ ~conv.entered => exc # TransformException
C8_CriticalSection == IsTransform => TraceOrdered

\* C8 restricted to the calls in which no conversion loop or library call
\* left the array.
C8_WhenNoFault == (IsTransform /\ ~fault) => TraceOrdered

\* C10: in a valid call that entered the critical section each conversion
\* loop stops at its stop position without stepping past it, multiplies only
\* ordinates of the window, and the ordinates outside the window are unchanged.
Window(a) == a.offset .. a.offset + a.dimension * a.numPts - 1
C10_LoopsStayInWindow ==
    (IsTransform /\ conv.entered /\ ValidArgs(op.args)) =>
        /\ ~conv.overrun /\ ~fault
        /\ Range(conv.pre) \subseteq Window(op.args)
        /\ Range(conv.post) \subseteq Window(op.args)
        /\ \A i \in 0 .. op.args.length - 1 :
              i \notin Window(op.args) => coordinates[i + 1] = << >>

\* C9 as stated: however two releases of a wrapper interleave, the handle is
\* freed at most once.
C9_Original == \A h \in Handles : freeCount[h] <= 1

\* C9 as amended: the handle is freed at most once unless a release read the
\* field while another release of the same wrapper had read it and not yet
\* zeroed it; releases that run one after the other free it once.
C9_FreedOnceUnlessRaced ==
    \A w \in Wrappers :
        freeCount[w] >= 2 => w \in raced

\* Both threads completed a release of the same wrapper, the second found the
\* field zero, and the handle was freed once.
C9_Witness ==
    \E w \in Wrappers :
        /\ \A t \in Threads : tpc[t] = "idle" /\ tcalls[t] >= 1 /\ tobj[t] = w
        /\ w \notin raced
        /\ freeCount[w] = 1
====
